---- MODULE Spec2Model ----
(***************************************************************************)
(* go-logger: a process-wide zap logger behind Init / Logger /             *)
(* SugaredLogger, handles that attach a correlation ID, and PanicLogger.   *)
(* The model follows src/recover.go (PanicLogger, lines 1-19, and the      *)
(* current revision of the logger, lines 20-237; src/logger.go is the      *)
(* earlier revision of the same declarations).                             *)
(***************************************************************************)
EXTENDS Integers, Sequences, FiniteSets, TLC

\* ------------------------------------------------------------------ bounds
NumProcs == 2          \* goroutines that may call Init
MaxHandles == 3        \* handle objects allocated by accessors and With calls

Procs == 1..NumProcs

\* ------------------------------------------------------- program constants
DebugLevel == -1       \* zap.DebugLevel
InfoLevel == 0         \* zap.InfoLevel
ErrorLevel == 2        \* zap.ErrorLevel
FatalLevel == 5        \* zap.FatalLevel (SugaredLogger.Fatalf)
SamplingInitial == 100
SamplingThereafter == 100

Nil == 0               \* the nil pointer; heap objects are numbered from 1
DefaultKey == "correlation_id"
OmitKey == ""          \* zapcore.OmitKey
NotInitialized == "logger not initialized. Call Init(ctx)"

\* ------------------------------------------------------------- input values
\* A Go interface{} value: its dynamic type and, for a string, its text.
Str(s) == [type |-> "string", val |-> s]
IntV == [type |-> "int", val |-> "5"]
NilV == [type |-> "nil", val |-> ""]
DynValues == {Str("abc-123"), IntV, NilV}

\* the type assertion correlationId.(string)
IsString(v) == v.type = "string"

\* keys handed to the two setters
KeyInputs == {"", "rid", "tid"}

\* levels a PUT on /loglevel sets
HttpLevels == {DebugLevel, ErrorLevel}

\* keys the setters are given where handles are derived
FacadeKeyInputs == {"", "rid"}

\* a context.Context: the value it holds under each string key (NilV: none).
\* Under each key one context holds a string, one a non-string, one nothing.
CtxKeys == {DefaultKey, "rid"}
Ctx(a, b) == [k \in CtxKeys |-> IF k = DefaultKey THEN a ELSE b]
Contexts == {Ctx(Str("abc-123"), NilV), Ctx(IntV, Str("r-7")), Ctx(NilV, IntV)}
EmptyCtx == Ctx(NilV, NilV)

\* ctx.Value(key)
CtxValue(ctx, key) == IF key \in DOMAIN ctx THEN ctx[key] ELSE NilV

\* a zap field
Field(k, v) == [key |-> k, val |-> v]
OpField == Field("op", Str("panic_logger"))

\* argument lists handed to With
WithArgs == {<<>>, <<Field("op", Str("checkout")), Field("n", IntV)>>}

VARIABLES
    logger,                    \* var logger *CLogger (Nil or a heap index)
    correlationIdContextKey,   \* var correlationIdContextKey string
    correlationIdFieldKey,     \* var correlationIdFieldKey string
    heap,                      \* the CLogger / CSugaredLogger objects allocated
    cores,                     \* the backend zapConfig.Build returned to each Init call
    atoms,                     \* the zap.AtomicLevel each Init call created
    listeners,                 \* the goroutine each Init call started to serve /loglevel
    port,                      \* the Init call whose listener holds :53835 (0: none)
    pc,                        \* each goroutine's position in Init
    frame,                     \* each goroutine's Init arguments and locals
    out,                       \* the records handed to each backend, in order
    proc,                      \* "running", "exited" (os.Exit), "crashed" (panic)
    panicValue,                \* the panic value the process ended on (logged or unwinding)
    lastFieldKeySet,           \* history: last non-empty key given to SetCorrelationIdFieldKey
    lastContextKeySet,         \* history: last non-empty key given to SetCorrelationIdContextKey
    last                       \* history: the last call and what it returned

vars == <<logger, correlationIdContextKey, correlationIdFieldKey, heap, cores,
          atoms, listeners, port, pc, frame, out, proc, panicValue,
          lastFieldKeySet, lastContextKeySet, last>>

keyVars == <<correlationIdContextKey, correlationIdFieldKey>>
setVars == <<lastFieldKeySet, lastContextKeySet>>
initVars == <<cores, atoms, listeners, port, pc, frame>>
endVars == <<proc, panicValue>>

\* a call and its result, as the history variable records it: the receiver
\* and the arguments, the process-wide handle (lg) and the two keys at the
\* time of the call, the handle returned (res) and how the call ended
NoCall ==
    [op |-> "none", recv |-> Nil, arg |-> NilV, ctx |-> EmptyCtx, fields |-> <<>>,
     panicking |-> FALSE, lg |-> Nil, key |-> "", ckey |-> "", res |-> Nil,
     outcome |-> ""]
Plain(op, key, res, outcome, lg) ==
    [NoCall EXCEPT !.op = op, !.key = key, !.res = res, !.outcome = outcome, !.lg = lg]
Derived(op, l, v, ctx, fields, res) ==
    [NoCall EXCEPT !.op = op, !.recv = l, !.arg = v, !.ctx = ctx, !.fields = fields,
                   !.lg = logger, !.key = correlationIdFieldKey,
                   !.ckey = correlationIdContextKey, !.res = res, !.outcome = "ok"]
Unwound(panicking, v, res, outcome) ==
    [NoCall EXCEPT !.op = "PanicLogger", !.panicking = panicking, !.arg = v,
                   !.lg = logger, !.res = res, !.outcome = outcome]

NoFrame == [enable |-> FALSE, dev |-> FALSE]

\* cores, atoms, listeners and out are keyed by the goroutine whose Init call
\* made them; a key absent from the domain is an object not made yet
Put(f, p, x) == [q \in DOMAIN f \cup {p} |-> IF q = p THEN x ELSE f[q]]

Init ==
    /\ logger = Nil
    /\ correlationIdContextKey = ""
    /\ correlationIdFieldKey = ""
    /\ heap = <<>>
    /\ cores = <<>>
    /\ atoms = <<>>
    /\ listeners = <<>>
    /\ port = 0
    /\ pc = [p \in Procs |-> "idle"]
    /\ frame = [p \in Procs |-> NoFrame]
    /\ out = <<>>
    /\ proc = "running"
    /\ panicValue = NilV
    /\ lastFieldKeySet = ""
    /\ lastContextKeySet = ""
    /\ last = NoCall

\* ---------------------------------------------------------------- helpers
\* (variant: the test left out, every call configures again)
InitGuardMissing(lg) == FALSE

\* Init's first test: the process-wide handle already exists
InitGuard(lg) == lg # Nil

\* (variant: Info in both modes)
InitialLevelInfo(dev) == InfoLevel

\* zap.NewAtomicLevelAt: the level Init creates the atom with
InitialLevel(dev) == IF dev THEN DebugLevel ELSE InfoLevel
NewAtomicLevelAt(lvl) == [level |-> lvl, initial |-> lvl]

\* zapcore.EncoderConfig of the two branches
EncoderConfig(dev) ==
    [TimeKey |-> "ts", LevelKey |-> "level", NameKey |-> "logger",
     CallerKey |-> "caller", FunctionKey |-> IF dev THEN "func" ELSE OmitKey,
     MessageKey |-> "msg", StacktraceKey |-> "stacktrace",
     EncodeCaller |-> IF dev THEN "FullCallerEncoder" ELSE "ShortCallerEncoder"]

\* zap.Config of the two branches; Sampling <<>> is the nil *SamplingConfig
ZapConfig(dev) ==
    [Development |-> dev,
     Sampling |-> IF dev THEN <<>> ELSE <<SamplingInitial, SamplingThereafter>>,
     Encoding |-> "json", EncoderConfig |-> EncoderConfig(dev),
     OutputPaths |-> <<"stdout">>, ErrorOutputPaths |-> <<"stdout">>]

\* (variant: "serveHttp" never appended)
LoggerModeNoHttp(enable, dev) == <<IF dev THEN "dev" ELSE "prod">>

\* the loggerMode slice Init builds
LoggerMode(enable, dev) ==
    <<IF dev THEN "dev" ELSE "prod">> \o (IF enable THEN <<"serveHttp">> ELSE <<>>)

\* the level enabler of a backend: a record of level lvl passes atom a
Enabled(lvl, a) == lvl >= atoms[a].level

\* a record handed to a backend; emitted: it passed the level and was written
Record(lvl, msg, modes, fields, payload, stack, emitted) ==
    [level |-> lvl, msg |-> msg, modes |-> modes, fields |-> fields,
     payload |-> payload, stack |-> stack, emitted |-> emitted]

MsgInitialized == "Logger initialized successfully"
MsgHttpActive == "Logger HTTP Server active on :53835/loglevel"
MsgPanic == "panic: %s stack: %s"

\* ------------------------------------------------------------------- Init
\* func Init up to the `go func()`: the test of the process-wide handle, the
\* two key assignments, the configuration branch and the listener goroutine
InitEnter(p, enable, dev) ==
    /\ proc = "running"
    /\ pc[p] = "idle"
    /\ IF InitGuard(logger)
       THEN /\ last' = Plain("Init", "", logger, "noop", logger)
            /\ UNCHANGED <<keyVars, atoms, listeners, pc, frame>>
       ELSE /\ correlationIdContextKey' = DefaultKey
            /\ correlationIdFieldKey' = DefaultKey
            /\ atoms' = Put(atoms, p, NewAtomicLevelAt(InitialLevel(dev)))
            /\ listeners' = IF enable THEN Put(listeners, p, "spawned") ELSE listeners
            /\ pc' = [pc EXCEPT ![p] = "build"]
            /\ frame' = [frame EXCEPT ![p] = [enable |-> enable, dev |-> dev]]
            /\ UNCHANGED last
    /\ UNCHANGED <<logger, heap, cores, port, out, endVars, setVars>>

\* l, err := zapConfig.Build(), the panic on err, and
\* l.Info("Logger initialized successfully", zap.Strings("logger_modes", loggerMode)).
\* The sampler of the production configuration passes the first
\* SamplingInitial records of a message, so only the level decides here.
InitBuild(p) ==
    /\ proc = "running"
    /\ pc[p] = "build"
    /\ \E ok \in BOOLEAN :
         IF ok
         THEN /\ cores' = Put(cores, p, [cfg |-> ZapConfig(frame[p].dev),
                                         dev |-> frame[p].dev, enable |-> frame[p].enable])
              /\ out' = Put(out, p, <<Record(InfoLevel, MsgInitialized,
                                             LoggerMode(frame[p].enable, frame[p].dev),
                                             <<>>, NilV, FALSE, Enabled(InfoLevel, p))>>)
              /\ pc' = [pc EXCEPT ![p] = IF frame[p].enable THEN "loghttp" ELSE "store"]
              /\ UNCHANGED endVars
         ELSE /\ proc' = "crashed"
              /\ panicValue' = Str("logger initalization error")
              /\ UNCHANGED <<cores, out, pc>>
    /\ UNCHANGED <<logger, keyVars, heap, atoms, listeners, port, frame, setVars, last>>

\* if enableLogLevelEndpoint { l.Info("Logger HTTP Server active on :53835/loglevel") }
InitLogHttp(p) ==
    /\ proc = "running"
    /\ pc[p] = "loghttp"
    /\ out' = [out EXCEPT ![p] = Append(@, Record(InfoLevel, MsgHttpActive, <<>>, <<>>, NilV,
                                        FALSE, Enabled(InfoLevel, p)))]
    /\ pc' = [pc EXCEPT ![p] = "store"]
    /\ UNCHANGED <<logger, keyVars, heap, cores, atoms, listeners, port, frame,
                   endVars, setVars, last>>

\* logger = &CLogger{*l}, and the return
InitStore(p) ==
    /\ proc = "running"
    /\ pc[p] = "store"
    /\ heap' = Append(heap, [kind |-> "CLogger", core |-> p, fields |-> <<>>])
    /\ logger' = Len(heap) + 1
    /\ pc' = [pc EXCEPT ![p] = "idle"]
    /\ frame' = [frame EXCEPT ![p] = NoFrame]
    /\ last' = Plain("Init", "", Len(heap) + 1, "done", logger)
    /\ UNCHANGED <<keyVars, cores, atoms, listeners, port, out, endVars, setVars>>

\* the goroutine's http.ListenAndServe(":53835", mux): the error is dropped
ListenerBind(i) ==
    /\ proc = "running"
    /\ listeners[i] = "spawned"
    /\ \E ok \in BOOLEAN :
         /\ ok => port = 0
         /\ listeners' = [listeners EXCEPT ![i] = IF ok THEN "bound" ELSE "failed"]
         /\ port' = IF ok THEN i ELSE port
    /\ UNCHANGED <<logger, keyVars, heap, cores, atoms, pc, frame, out, endVars,
                   setVars, last>>

\* a PUT on /loglevel, served by the atom (mux.Handle("/loglevel", atom))
HttpPutLevel(i, lvl) ==
    /\ proc = "running"
    /\ listeners[i] = "bound"
    /\ atoms[i].level # lvl
    /\ atoms' = [atoms EXCEPT ![i].level = lvl]
    /\ UNCHANGED <<logger, keyVars, heap, cores, listeners, port, pc, frame, out,
                   endVars, setVars, last>>

\* ---------------------------------------------------------------- setters
\* the body shared by the two setters: an empty key is ignored
SetKey(cur, key) == IF key = "" THEN cur ELSE key

SetCorrelationIdFieldKey(key) ==
    /\ proc = "running"
    /\ correlationIdFieldKey' = SetKey(correlationIdFieldKey, key)
    /\ lastFieldKeySet' = IF key = "" THEN lastFieldKeySet ELSE key
    /\ last' = Plain("SetCorrelationIdFieldKey", key, 0, "", logger)
    /\ UNCHANGED <<logger, correlationIdContextKey, heap, initVars, out, endVars,
                   lastContextKeySet>>

SetCorrelationIdContextKey(key) ==
    /\ proc = "running"
    /\ correlationIdContextKey' = SetKey(correlationIdContextKey, key)
    /\ lastContextKeySet' = IF key = "" THEN lastContextKeySet ELSE key
    /\ last' = Plain("SetCorrelationIdContextKey", key, 0, "", logger)
    /\ UNCHANGED <<logger, correlationIdFieldKey, heap, initVars, out, endVars,
                   lastFieldKeySet>>

\* -------------------------------------------------------------- accessors
\* (variant: no test, the nil handle is returned)
NotInitializedIgnored(lg) == FALSE

\* the test both accessors start with
NotInitializedPanic(lg) == lg = Nil

\* logger.Sugar(): the same backend and fields behind the sugared type
Sugar(h) == [h EXCEPT !.kind = "CSugaredLogger"]

\* zap's With: a clone carrying the receiver's fields followed by the new ones
ZapWith(h, fields) == [h EXCEPT !.fields = @ \o fields]

\* func Logger; outcome "panic" is panic("logger not initialized. Call Init(ctx)")
\* unwinding into the caller, which receives no handle
Logger ==
    /\ proc = "running"
    /\ IF NotInitializedPanic(logger)
       THEN last' = Plain("Logger", "", Nil, "panic", logger)
       ELSE last' = Plain("Logger", "", logger, "ok", logger)
    /\ UNCHANGED <<logger, keyVars, heap, initVars, out, endVars, setVars>>

\* func SugaredLogger
SugaredLogger ==
    /\ proc = "running"
    /\ IF NotInitializedPanic(logger)
       THEN /\ last' = Plain("SugaredLogger", "", Nil, "panic", logger)
            /\ UNCHANGED heap
       ELSE /\ logger \in DOMAIN heap
            /\ Len(heap) < MaxHandles
            /\ heap' = Append(heap, Sugar(heap[logger]))
            /\ last' = Plain("SugaredLogger", "", Len(heap) + 1, "ok", logger)
    /\ UNCHANGED <<logger, keyVars, initVars, out, endVars, setVars>>

\* ------------------------------------------------------------ PanicLogger
PanicNilError == [type |-> "*runtime.PanicNilError", val |-> ""]

\* recover() in the deferred call: nil when nothing panics; panic(nil) is seen
\* as nil by a toolchain before Go 1.21 (or under GODEBUG=panicnil=1) and as a
\* *runtime.PanicNilError by a later one
Recover(panicking, v, oldNil) ==
    IF ~panicking THEN NilV
    ELSE IF v = NilV THEN (IF oldNil THEN NilV ELSE PanicNilError)
    ELSE v

\* func PanicLogger, run as the deferred call of a unit of work that returns
\* (panicking = FALSE) or panics with payload v
PanicLogger(panicking, v) ==
    /\ proc = "running"
    /\ \E oldNil \in BOOLEAN :
         LET r == Recover(panicking, v, oldNil) IN
         IF r = NilV
         THEN \* nothing to log; a panic(nil) that recover() took is gone
              /\ last' = Unwound(panicking, v, Nil, IF panicking THEN "swallowed" ELSE "noop")
              /\ UNCHANGED <<heap, out, endVars>>
         ELSE IF NotInitializedPanic(logger)
         THEN \* SugaredLogger() panics inside the deferred call
              /\ last' = Unwound(panicking, v, Nil, "repanic")
              /\ proc' = "crashed"
              /\ panicValue' = Str(NotInitialized)
              /\ UNCHANGED <<heap, out>>
         ELSE LET s == Sugar(heap[logger])
                  w == ZapWith(s, <<OpField>>)
              IN /\ logger \in DOMAIN heap
                 /\ heap' = heap \o <<s, w>>
                 /\ out' = [out EXCEPT ![w.core] = Append(@, Record(FatalLevel, MsgPanic, <<>>,
                                        w.fields, r, TRUE, Enabled(FatalLevel, w.core)))]
                 /\ last' = Unwound(panicking, v, Len(heap) + 2, "fatal")
                 /\ proc' = "exited"
                 /\ panicValue' = r
    /\ UNCHANGED <<logger, keyVars, initVars, setVars>>

\* ----------------------------------------------------------------- handles
\* the type switch of WithCorrelationId: a string adds the field
AddsCorrelationField(v) == IsString(v)

\* (variant: the literal key of the earlier revision, src/logger.go)
CorrelationFieldLiteral(key, v) == Field(DefaultKey, v)

\* zap.Stringp(correlationIdFieldKey, &s)
CorrelationField(key, v) == Field(key, v)

\* (variant: the new fields are appended to the receiver's own field list)
HeapWithShared(hp, l, fields) ==
    Append([hp EXCEPT ![l] = ZapWith(@, fields)], ZapWith(hp[l], fields))

\* the heap after (l *CLogger).With / (l *CSugaredLogger).With: a new object,
\* the receiver left as it was
HeapWith(hp, l, fields) == Append(hp, ZapWith(hp[l], fields))

\* func (l *CLogger) With / func (l *CSugaredLogger) With
With(l, fields) ==
    /\ proc = "running"
    /\ l \in DOMAIN heap
    /\ Len(heap) < MaxHandles
    /\ heap' = HeapWith(heap, l, fields)
    /\ last' = Derived("With", l, NilV, EmptyCtx, fields, Len(heap) + 1)
    /\ UNCHANGED <<logger, keyVars, initVars, out, endVars, setVars>>

\* the body shared by WithCorrelationId and WithContextCorrelationId
AttachCorrelationId(op, l, v, ctx) ==
    IF AddsCorrelationField(v)
    THEN /\ Len(heap) < MaxHandles
         /\ heap' = HeapWith(heap, l, <<CorrelationField(correlationIdFieldKey, v)>>)
         /\ last' = Derived(op, l, v, ctx, <<>>, Len(heap) + 1)
    ELSE /\ heap' = heap
         /\ last' = Derived(op, l, v, ctx, <<>>, l)

\* func (l *CLogger) WithCorrelationId / func (l *CSugaredLogger) WithCorrelationId
WithCorrelationId(l, v) ==
    /\ proc = "running"
    /\ l \in DOMAIN heap
    /\ AttachCorrelationId("WithCorrelationId", l, v, EmptyCtx)
    /\ UNCHANGED <<logger, keyVars, initVars, out, endVars, setVars>>

\* (variant: the field key used for the lookup)
ContextLookupFieldKey == correlationIdFieldKey

\* the key WithContextCorrelationId looks up in the context
ContextLookupKey == correlationIdContextKey

\* func (l *CLogger) WithContextCorrelationId / (l *CSugaredLogger) ...
WithContextCorrelationId(l, ctx) ==
    /\ proc = "running"
    /\ l \in DOMAIN heap
    /\ AttachCorrelationId("WithContextCorrelationId", l,
                           CtxValue(ctx, ContextLookupKey), ctx)
    /\ UNCHANGED <<logger, keyVars, initVars, out, endVars, setVars>>

\* ---------------------------------------------------------- specifications
InitSteps(p) ==
    \/ \E enable \in BOOLEAN, dev \in BOOLEAN : InitEnter(p, enable, dev)
    \/ InitBuild(p)
    \/ InitLogHttp(p)
    \/ InitStore(p)

\* the lifecycle: goroutines racing through Init, and the level endpoint
Next ==
    \/ \E p \in Procs : InitSteps(p)
    \/ \E i \in DOMAIN listeners : ListenerBind(i)
    \/ \E i \in DOMAIN listeners, lvl \in HttpLevels : HttpPutLevel(i, lvl)

Spec == Init /\ [][Next]_vars

\* the goroutine that calls Init in a program that calls it from one place
MainProc == CHOOSE p \in Procs : \A q \in Procs : p <= q

\* a program whose main goroutine calls Init while the setters, the accessors
\* and deferred PanicLogger calls run at any time
NextMain ==
    \/ InitSteps(MainProc)
    \/ \E key \in KeyInputs : SetCorrelationIdFieldKey(key)
    \/ \E key \in KeyInputs : SetCorrelationIdContextKey(key)
    \/ Logger
    \/ SugaredLogger
    \/ PanicLogger(FALSE, NilV)
    \/ \E v \in DynValues : PanicLogger(TRUE, v)

SpecMain == Init /\ [][NextMain]_vars

\* the same program, without the level endpoint, deriving handles from the
\* ones the accessors return
NextFacade ==
    \/ \E dev \in BOOLEAN : InitEnter(MainProc, FALSE, dev)
    \/ InitBuild(MainProc)
    \/ InitStore(MainProc)
    \/ \E key \in FacadeKeyInputs : SetCorrelationIdFieldKey(key)
    \/ \E key \in FacadeKeyInputs : SetCorrelationIdContextKey(key)
    \/ Logger
    \/ SugaredLogger
    \/ \E l \in DOMAIN heap, fields \in WithArgs : With(l, fields)
    \/ \E l \in DOMAIN heap, v \in DynValues : WithCorrelationId(l, v)
    \/ \E l \in DOMAIN heap, ctx \in Contexts : WithContextCorrelationId(l, ctx)

SpecFacade == Init /\ [][NextFacade]_vars

\* ------------------------------------------------------------------ claims
\* goroutine p's Init call has built its backend and stored the handle
Completed(p) == p \in DOMAIN cores /\ pc[p] = "idle"

\* the records of backend p that were written, by message
Written(p, msg) == {i \in DOMAIN out[p] : out[p][i].msg = msg /\ out[p][i].emitted}
Handed(p, msg) == {i \in DOMAIN out[p] : out[p][i].msg = msg}

\* C1: an Init call made once the process-wide handle exists returns at its
\* first test: the caller stays where it was, and the call builds no backend,
\* creates no atom, starts no listener, hands no record to a backend, and leaves
\* the handle and both correlation keys as they were.
C1_InitIdempotent ==
    [][/\ \A p \in Procs :
            (logger # Nil /\ pc[p] = "idle") =>
                /\ pc'[p] = "idle"
                /\ (p \in DOMAIN atoms' <=> p \in DOMAIN atoms)
                /\ (p \in DOMAIN cores' <=> p \in DOMAIN cores)
                /\ (p \in DOMAIN listeners' <=> p \in DOMAIN listeners)
       /\ (last' # last /\ last'.op = "Init" /\ last'.outcome = "noop") =>
            UNCHANGED <<logger, keyVars, heap, initVars, out, endVars>>]_vars

\* a second Init call has returned after the first one completed
C1_Witness ==
    /\ last.op = "Init" /\ last.outcome = "noop"
    /\ logger # Nil
    /\ \E p \in Procs : Completed(p) /\ cores[p].enable

\* C7 (as claimed): however first Init calls interleave, at most one backend
\* is built, one listener goroutine started, one process-wide handle stored
\* and one "Logger initialized successfully" record handed over; and exactly
\* one of each (listener apart) once the handle exists.
C7_SingleConstruction ==
    LET built == Cardinality(DOMAIN cores)
        started == Cardinality(DOMAIN listeners)
        stored == Cardinality({h \in DOMAIN heap : heap[h].kind = "CLogger"})
        records == Cardinality({p \in DOMAIN out : Handed(p, MsgInitialized) # {}})
    IN /\ built <= 1 /\ started <= 1 /\ stored <= 1 /\ records <= 1
       /\ logger # Nil => (built = 1 /\ stored = 1 /\ records = 1)

\* C8: every backend Init builds follows developmentMode alone: Debug as the
\* atom's initial level, the "func" key and no sampling when it is true; Info,
\* the function key omitted and sampling 100/100 when it is false.
C8_ModeFromDevelopmentMode ==
    \A p \in DOMAIN cores :
        LET c == cores[p] IN
        IF c.dev
        THEN /\ atoms[p].initial = DebugLevel
             /\ c.cfg.EncoderConfig.FunctionKey = "func"
             /\ c.cfg.Sampling = <<>>
        ELSE /\ atoms[p].initial = InfoLevel
             /\ c.cfg.EncoderConfig.FunctionKey = OmitKey
             /\ c.cfg.Sampling = <<SamplingInitial, SamplingThereafter>>

\* completed Init calls in both modes, one of them with the level endpoint
C8_Witness ==
    /\ logger # Nil
    /\ \E p \in DOMAIN cores, q \in DOMAIN cores :
         /\ Completed(p) /\ cores[p].dev /\ cores[p].enable
         /\ ~cores[q].dev

\* C9 (as claimed): once an Init call has stored the handle, its backend has
\* written exactly one Info record, the one that lists the modes.
C9_ExactlyOneInfoRecord ==
    \A p \in Procs :
        Completed(p) =>
            /\ Cardinality({i \in DOMAIN out[p] :
                               out[p][i].level = InfoLevel /\ out[p][i].emitted}) = 1
            /\ \A i \in Written(p, MsgInitialized) :
                   out[p][i].modes = <<IF cores[p].dev THEN "dev" ELSE "prod">>
                                     \o (IF cores[p].enable THEN <<"serveHttp">> ELSE <<>>)

\* C9 (amended): before an Init call stores the handle it has handed its
\* backend the Info record "Logger initialized successfully", whose
\* logger_modes is "dev" or "prod" followed by "serveHttp" exactly when the
\* endpoint is enabled, and, exactly when the endpoint is enabled, a second Info
\* record "Logger HTTP Server active on :53835/loglevel"; nothing else; and a
\* record is left unwritten only when the call's level endpoint is serving.
C9_InitRecords ==
    \A p \in DOMAIN cores :
        LET first == Record(InfoLevel, MsgInitialized,
                            <<IF cores[p].dev THEN "dev" ELSE "prod">>
                            \o (IF cores[p].enable THEN <<"serveHttp">> ELSE <<>>),
                            <<>>, NilV, FALSE, TRUE)
            second == Record(InfoLevel, MsgHttpActive, <<>>, <<>>, NilV, FALSE, TRUE)
            handed == [i \in DOMAIN out[p] |-> [out[p][i] EXCEPT !.emitted = TRUE]]
        IN /\ (pc[p] = "store" \/ Completed(p)) =>
                 handed = IF cores[p].enable THEN <<first, second>> ELSE <<first>>
           /\ (logger # Nil /\ heap[logger].core = p) => Completed(p)
           /\ \A i \in DOMAIN out[p] :
                  ~out[p][i].emitted => (p \in DOMAIN listeners /\ listeners[p] = "bound")

\* an Init call with the endpoint enabled has completed
C9_Witness ==
    \E p \in Procs :
        /\ Completed(p) /\ cores[p].enable /\ logger # Nil
        /\ Len(out[p]) = 2

\* C2: an accessor called while the process-wide handle is nil panics and
\* returns no handle; called once the handle exists it returns one: Logger
\* the process-wide handle itself, SugaredLogger a sugared handle on it.
C2_AccessorsNeedInit ==
    last.op \in {"Logger", "SugaredLogger"} =>
        IF last.lg = Nil
        THEN last.outcome = "panic" /\ last.res = Nil
        ELSE /\ last.outcome = "ok"
             /\ last.res \in DOMAIN heap
             /\ heap[last.res].core = heap[last.lg].core
             /\ IF last.op = "Logger"
                THEN last.res = last.lg
                ELSE heap[last.res].kind = "CSugaredLogger"

\* an accessor has panicked while an Init call was under way
C2_Witness ==
    /\ last.op = "SugaredLogger" /\ last.outcome = "panic"
    /\ logger = Nil
    /\ pc[MainProc] = "store"

\* C4 (as claimed, for the states in which handles exist): each key is the
\* last non-empty value its setter was given, or "correlation_id" when the
\* setter was never given one, and never empty.
C4_KeysFollowSetters ==
    logger # Nil =>
        /\ correlationIdFieldKey =
               (IF lastFieldKeySet = "" THEN DefaultKey ELSE lastFieldKeySet)
        /\ correlationIdContextKey =
               (IF lastContextKeySet = "" THEN DefaultKey ELSE lastContextKeySet)
        /\ correlationIdFieldKey # "" /\ correlationIdContextKey # ""

\* C6 (as claimed, for a non-nil payload): a deferred PanicLogger does nothing
\* when the unit returns; when the unit panics it hands the backend exactly one
\* Fatal record with op="panic_logger", the payload and the stack, which is
\* written, and the process exits; the panic is not replaced by another.
C6_PanicLoggerLogsFatal ==
    LET fatal == UNION {{<<p, i>> : i \in {j \in DOMAIN out[p] :
                                               out[p][j].level = FatalLevel}} :
                        p \in DOMAIN out}
    IN last.op = "PanicLogger" =>
           IF ~last.panicking
           THEN proc = "running" /\ fatal = {}
           ELSE last.arg # NilV =>
                    /\ Cardinality(fatal) = 1
                    /\ \A r \in fatal :
                           LET rec == out[r[1]][r[2]] IN
                           /\ rec.payload = last.arg /\ rec.stack /\ rec.emitted
                           /\ \E k \in DOMAIN rec.fields : rec.fields[k] = OpField
                    /\ proc = "exited"
                    /\ panicValue = last.arg

\* C3: WithCorrelationId with a string returns a new handle of the receiver's
\* type and backend whose fields are the receiver's followed by the field
\* (field key at the time of the call, the string); with a value of any other
\* type it returns the receiver.
C3_WithCorrelationId ==
    last.op = "WithCorrelationId" =>
        IF last.arg.type = "string"
        THEN /\ last.res # last.recv
             /\ last.res \in DOMAIN heap
             /\ heap[last.res] = [heap[last.recv] EXCEPT
                                    !.fields = Append(@, [key |-> last.key, val |-> last.arg])]
        ELSE last.res = last.recv

\* a string was attached under a key set by SetCorrelationIdFieldKey
C3_Witness ==
    /\ last.op = "WithCorrelationId"
    /\ last.arg.type = "string"
    /\ last.key = "rid"
    /\ heap[last.res].kind = "CSugaredLogger"

\* C10: WithContextCorrelationId returns what WithCorrelationId returns for
\* the value the context holds under the context key at the time of the call:
\* a new handle with the correlation field for a string, the receiver for a
\* non-string or no value.
C10_WithContextCorrelationId ==
    last.op = "WithContextCorrelationId" =>
        LET v == IF last.ckey \in DOMAIN last.ctx THEN last.ctx[last.ckey] ELSE NilV IN
        IF v.type = "string"
        THEN /\ last.res # last.recv
             /\ last.res \in DOMAIN heap
             /\ heap[last.res] = [heap[last.recv] EXCEPT
                                    !.fields = Append(@, [key |-> last.key, val |-> v])]
        ELSE last.res = last.recv

\* the lookup used a context key that differs from the field key and found a string
C10_Witness ==
    /\ last.op = "WithContextCorrelationId"
    /\ last.ckey = "rid" /\ last.key = DefaultKey
    /\ last.ctx["rid"].type = "string"
    /\ last.res # last.recv

\* C5: no call changes a handle that exists, the process-wide one included;
\* With returns a new handle whose fields are the receiver's followed by the
\* arguments in order, and a correlation call that returns a new handle gives
\* it the receiver's fields followed by one field.
C5_HandlesImmutable ==
    [][/\ \A h \in DOMAIN heap : h \in DOMAIN heap' /\ heap'[h] = heap[h]
       /\ (last' # last /\ last'.op = "With") =>
            /\ last'.res \notin DOMAIN heap
            /\ heap'[last'.res].fields = heap[last'.recv].fields \o last'.fields
       /\ (last' # last /\ last'.res # last'.recv
             /\ last'.op \in {"WithCorrelationId", "WithContextCorrelationId"}) =>
            /\ last'.res \notin DOMAIN heap
            /\ Len(heap'[last'.res].fields) = Len(heap[last'.recv].fields) + 1
            /\ SubSeq(heap'[last'.res].fields, 1, Len(heap[last'.recv].fields))
                 = heap[last'.recv].fields]_vars

\* a correlation ID was attached to a handle that With had derived
C5_Witness ==
    /\ last.op = "WithCorrelationId"
    /\ last.res # last.recv
    /\ heap[last.recv].fields # <<>>
    /\ Len(heap[last.res].fields) = 3

====
